---- MODULE Spec2Model ----
(***************************************************************************)
(* Attendance verification and session lifecycle of the attendance         *)
(* backend: class sessions (models/class_model.py), QR credentials         *)
(* (ClassSession.generate_qr_code / validate_qr_code, QRService), the      *)
(* attendance ledger (models/attendance.py) and the two submission         *)
(* handlers mark_attendance_qr / mark_attendance_face                      *)
(* (routes/attendance.py), and the daily snapshots, trends and risk lists  *)
(* derived from the ledger (models/analytics.py, routes/analytics.py).     *)
(*                                                                         *)
(* Time is counted in whole minutes from an arbitrary origin.  A nullable  *)
(* column is a sequence of length 0 (NULL) or 1 (the value).  Confidence   *)
(* and distances are hundredths (0.6 is 60).  A QR token is the number of  *)
(* the secrets.token_urlsafe(32) draw that produced it: every draw is a    *)
(* fresh value (256 random bits), and 0 is a string no draw produced.      *)
(***************************************************************************)
EXTENDS Integers, Sequences, FiniteSets, TLC

\* ----------------------------------------------------------------- bounds
MaxTime == 3
MaxRequests == 2
MaxOps == 2

\* ------------------------------------------------------ program constants
FACE_RECOGNITION_TOLERANCE == 60

Users == {1, 2}
Sessions == {1}
Times == 0 .. MaxTime
StartChoices == {1}
\* <<end_time, attendance_window_minutes>>: no end time and a window that
\* closes at 2, or an end time at 2 inside a window that closes at 3.
ScheduleChoices == {<<(<<>>), 1>>, <<(<<2>>), 2>>}
ExpiryChoices == {1}
Distances == {40, 45}
Methods == {"qr_code", "face_recognition"}

NULL == <<>>
Some(x) == <<x>>
IsNull(x) == x = <<>>
Val(x) == x[1]

VARIABLES now, sessions, attendances, pending, response, submitted, tokens,
          ops, superseded, issued, issuing, validating, analytics, computing

\* The requests that are between their load of a session row and their last
\* step when issue and validation are followed statement by statement:
\* issuing[s] is the row object an issue request holds in its ORM session,
\* validating the row object a validation request loaded.
inflight == <<issuing, validating>>

\* The attendance_analytics table and the generate_daily_analytics calls that
\* are between their queries and their commit.
derived == <<analytics, computing>>

vars == <<now, sessions, attendances, pending, response, submitted, tokens,
          ops, superseded, issued, issuing, validating, analytics, computing>>

\* number of encodings User.get_face_encodings returns for each user
face_encodings(u) == IF u = 1 THEN 1 ELSE 0

\* ------------------------------------------------------------ ClassSession
ClassSession(start_time, end_time, window) ==
    [start_time |-> start_time,
     end_time |-> end_time,
     qr_code |-> NULL,
     qr_code_expires_at |-> NULL,
     face_recognition_enabled |-> TRUE,
     qr_code_enabled |-> TRUE,
     is_active |-> TRUE,
     attendance_window_minutes |-> window,
     grace_period_minutes |-> 10,
     max_students |-> NULL]

is_attendance_window_open(cs, t) ==
    LET window_end == cs.start_time + cs.attendance_window_minutes
    IN  t <= window_end

is_class_active_no_window(cs, t) ==
    IF t < cs.start_time THEN FALSE
    ELSE IF ~IsNull(cs.end_time) /\ t > Val(cs.end_time) THEN FALSE
    ELSE TRUE

is_class_active(cs, t) ==
    IF t < cs.start_time THEN FALSE
    ELSE IF ~IsNull(cs.end_time) /\ t > Val(cs.end_time) THEN FALSE
    ELSE IF ~is_attendance_window_open(cs, t) THEN FALSE
    ELSE TRUE

\* json.dumps / json.loads: a text wraps the value it encodes.  A dict is not
\* a text: json.loads of it raises TypeError.
json_dumps(d) == [json |-> d]
IsStr(x) == DOMAIN x = {"json"}
json_loads(x) == x.json

generate_qr_code_fixed_token(cs, class_id, token, expiry_minutes, t) ==
    LET expires_at == t + expiry_minutes
        qr_data == [class_id |-> class_id, token |-> 1,
                    expires_at |-> expires_at, type |-> "attendance"]
    IN  [cs EXCEPT !.qr_code = Some(json_dumps(qr_data)),
                   !.qr_code_expires_at = Some(expires_at)]

\* ClassSession.generate_qr_code: the row after the method ran at time t and
\* drew token.
generate_qr_code(cs, class_id, token, expiry_minutes, t) ==
    LET expires_at == t + expiry_minutes
        qr_data == [class_id |-> class_id, token |-> token,
                    expires_at |-> expires_at, type |-> "attendance"]
    IN  [cs EXCEPT !.qr_code = Some(json_dumps(qr_data)),
                   !.qr_code_expires_at = Some(expires_at)]

validate_qr_code_early_expiry(cs, qr_token, t) ==
    IF IsNull(cs.qr_code) \/ IsNull(cs.qr_code_expires_at) THEN FALSE
    ELSE IF ~IsStr(Val(cs.qr_code)) THEN FALSE
    ELSE IF json_loads(Val(cs.qr_code)).token /= qr_token THEN FALSE
    ELSE IF t >= Val(cs.qr_code_expires_at) THEN FALSE
    ELSE TRUE

validate_qr_code(cs, qr_token, t) ==
    IF IsNull(cs.qr_code) \/ IsNull(cs.qr_code_expires_at) THEN FALSE
    ELSE IF ~IsStr(Val(cs.qr_code)) THEN FALSE
    ELSE IF json_loads(Val(cs.qr_code)).token /= qr_token THEN FALSE
    ELSE IF t > Val(cs.qr_code_expires_at) THEN FALSE
    ELSE TRUE

\* ---------------------------------------------------------------- QRService
QRService_generate_class_qr(class_id, token, duration_minutes, t) ==
    LET expires_at == t + duration_minutes
        qr_data == [class_id |-> class_id, token |-> token,
                    expires_at |-> expires_at, type |-> "attendance"]
    IN  [success |-> TRUE, qr_data |-> qr_data, token |-> token,
         expires_at |-> expires_at]

\* QRService.validate_qr(qr_token, qr_data): qr_data is the stored column
\* (NULL or a text); the result's 'valid' and 'error'.
QRService_validate_qr(qr_token, qr_data, t) ==
    IF IsNull(qr_data) THEN [valid |-> FALSE, error |-> "No QR data found"]
    ELSE IF ~IsStr(Val(qr_data))
        THEN [valid |-> FALSE, error |-> "Validation error"]
    ELSE LET data == json_loads(Val(qr_data)) IN
         IF data.token /= qr_token
            THEN [valid |-> FALSE, error |-> "Invalid QR token"]
         ELSE IF t > data.expires_at
            THEN [valid |-> FALSE, error |-> "QR code has expired"]
         ELSE IF data.type /= "attendance"
            THEN [valid |-> FALSE, error |-> "Invalid QR code type"]
         ELSE [valid |-> TRUE, error |-> "none"]

\* The String(500) column qr_code binds a text; the driver (sqlite3, psycopg2)
\* raises on a dict and the commit fails.
ColumnBinds(value) == IsNull(value) \/ IsStr(Val(value))

\* -------------------------------------------------- FaceRecognitionService
\* services/face_recognition_service_simple.py.  A probe image is NoFace (it
\* does not decode: encode_face_from_base64 returns None) or the distance the
\* service draws for it, one of Distances (face_distance draws in [0, 0.5)).
NoFace == 0 - 1
Probes == {NoFace} \cup Distances

\* FaceRecognitionService.tolerance (self.tolerance = 0.6).
FaceRecognitionService_tolerance == 60

encode_face_from_base64_always(probe) == Some(probe)

encode_face_from_base64(probe) == IF probe = NoFace THEN NULL ELSE Some(probe)

compare_faces_none(n, encoding) == <<>>

compare_faces(n, encoding) == [i \in 1 .. n |-> TRUE]

face_distance(n, encoding) == [i \in 1 .. n |-> encoding]

Min(S) == CHOOSE x \in S : \A y \in S : x <= y

\* ------------------------------------------------------------- Attendance
Attendance(user_id, class_id, method, confidence_score, timestamp) ==
    [user_id |-> user_id, class_id |-> class_id, method |-> method,
     confidence_score |-> confidence_score, timestamp |-> timestamp,
     is_verified |-> FALSE, verified_by |-> NULL, verified_at |-> NULL,
     notes |-> NULL]

verify_toggle(a, verified_by_user_id, notes, t) ==
    [a EXCEPT !.is_verified = ~a.is_verified,
              !.verified_by = Some(verified_by_user_id),
              !.verified_at = Some(t),
              !.notes = IF notes /= "" THEN Some(notes) ELSE @]

\* Attendance.verify(verified_by_user_id, notes) at time t; `if notes:` skips
\* the empty text.
verify(a, verified_by_user_id, notes, t) ==
    [a EXCEPT !.is_verified = TRUE,
              !.verified_by = Some(verified_by_user_id),
              !.verified_at = Some(t),
              !.notes = IF notes /= "" THEN Some(notes) ELSE @]

\* The outcome of a call: the value it returns, or the exception it raises.
Returns(value) == [raised |-> "none", value |-> value]
Raises(exception) == [raised |-> exception, value |-> FALSE]

\* models/attendance.py binds the names SQLAlchemy, datetime and json (lines
\* 1-3) and no other: timedelta is unbound in the module, and evaluating the
\* name (line 90) raises NameError.
attendance_module_names == {"SQLAlchemy", "datetime", "json", "db", "Attendance"}

\* The default of the parameter grace_period_minutes of Attendance.is_late.
DEFAULT_GRACE_PERIOD_MINUTES == 10

\* Attendance.is_late(grace_period_minutes) on record a whose class_session
\* relationship loads cs (NULL when the record has no session).
is_late(a, cs, grace_period_minutes) ==
    IF IsNull(cs) THEN Returns(FALSE)
    ELSE IF "timedelta" \notin attendance_module_names THEN Raises("NameError")
    ELSE Returns(a.timestamp > Val(cs).start_time + grace_period_minutes)

\* Attendance.get_attendance_status: self.is_late() with the default grace.
get_attendance_status(a, cs) ==
    LET late == is_late(a, cs, DEFAULT_GRACE_PERIOD_MINUTES)
    IN  IF late.raised /= "none" THEN late
        ELSE Returns(IF late.value THEN "late" ELSE "present")

\* Attendance.to_dict / to_dict_with_class: the dict is built key by key and
\* 'status' (get_attendance_status) and 'is_late' (is_late()) are among the
\* keys, so the call raises what they raise.
to_dict(a, cs) ==
    LET status == get_attendance_status(a, cs)
        late == is_late(a, cs, DEFAULT_GRACE_PERIOD_MINUTES)
    IN  IF status.raised /= "none" THEN status
        ELSE IF late.raised /= "none" THEN late
        ELSE Returns([user_id |-> a.user_id, class_id |-> a.class_id,
                      timestamp |-> a.timestamp, method |-> a.method,
                      confidence_score |-> a.confidence_score,
                      is_verified |-> a.is_verified,
                      verified_by |-> a.verified_by,
                      verified_at |-> a.verified_at, notes |-> a.notes,
                      status |-> status.value, is_late |-> late.value])

\* len([a for a in attendances if a.is_late()]) over the records of a
\* session: ClassSession.get_attendance_stats (class_model.py 122) and
\* AttendanceAnalytics.generate_daily_analytics (analytics.py 118).
late_count(table, class_id, cs) ==
    LET ids == {i \in 1 .. Len(table) : table[i].class_id = class_id}
        late(i) == is_late(table[i], Some(cs), DEFAULT_GRACE_PERIOD_MINUTES)
    IN  IF \E i \in ids : late(i).raised /= "none" THEN Raises("NameError")
        ELSE Returns(Cardinality({i \in ids : late(i).value}))

\* Attendance.query.filter_by(user_id=, class_id=).first(): the id (position
\* in the table) of the first matching row, 0 for None.
existing_attendance(table, user_id, class_id) ==
    LET ids == {i \in 1 .. Len(table) :
                  table[i].user_id = user_id /\ table[i].class_id = class_id}
    IN  IF ids = {} THEN 0 ELSE Min(ids)

\* ------------------------------------------------------- routes/attendance
\* The body of the ATTENDANCE_ALREADY_MARKED response carries
\* existing_attendance.to_dict(); when that call raises, the handler's except
\* clause answers its generic code instead (ATTENDANCE_ERROR in
\* mark_attendance_qr, FACE_RECOGNITION_ERROR from the inner try of
\* mark_attendance_face).
already_marked_response(existing, cs, error_code) ==
    IF to_dict(existing, Some(cs)).raised /= "none" THEN error_code
    ELSE "ATTENDANCE_ALREADY_MARKED"

\* The body of the success response carries attendance.to_dict_with_class(),
\* evaluated after the commit.
success_response(attendance, cs, error_code) ==
    IF to_dict(attendance, Some(cs)).raised /= "none" THEN error_code
    ELSE "success"

mark_attendance_qr_no_channel_check(cs, user_id, class_id, qr_token, table, t) ==
    IF ~is_class_active(cs, t) THEN "CLASS_NOT_ACTIVE"
    ELSE IF ~validate_qr_code(cs, qr_token, t) THEN "INVALID_QR_CODE"
    ELSE IF existing_attendance(table, user_id, class_id) /= 0
        THEN "ATTENDANCE_ALREADY_MARKED"
    ELSE "insert"

mark_attendance_qr_dedup_first(cs, user_id, class_id, qr_token, table, t) ==
    IF ~is_class_active(cs, t) THEN "CLASS_NOT_ACTIVE"
    ELSE IF ~cs.qr_code_enabled THEN "QR_CODE_DISABLED"
    ELSE IF existing_attendance(table, user_id, class_id) /= 0
        THEN "ATTENDANCE_ALREADY_MARKED"
    ELSE IF ~validate_qr_code(cs, qr_token, t) THEN "INVALID_QR_CODE"
    ELSE "insert"

\* mark_attendance_qr from the class-active check to the existence query, on
\* the row cs the handler loaded, at time t, against the table as it is then.
\* The result is the response's code, or "insert" when the handler goes on to
\* create the record.
mark_attendance_qr(cs, user_id, class_id, qr_token, table, t) ==
    IF ~is_class_active(cs, t) THEN "CLASS_NOT_ACTIVE"
    ELSE IF ~cs.qr_code_enabled THEN "QR_CODE_DISABLED"
    ELSE IF ~validate_qr_code(cs, qr_token, t) THEN "INVALID_QR_CODE"
    ELSE IF existing_attendance(table, user_id, class_id) /= 0
        THEN already_marked_response(
                 table[existing_attendance(table, user_id, class_id)], cs,
                 "ATTENDANCE_ERROR")
    ELSE "insert"

confidence_score(user_id, probe) ==
    LET face_distances == face_distance(face_encodings(user_id), probe)
    IN  100 - Min({face_distances[i] : i \in DOMAIN face_distances})

mark_attendance_face_probe_first(cs, user_id, class_id, probe, table, t) ==
    IF ~is_class_active(cs, t) THEN "CLASS_NOT_ACTIVE"
    ELSE IF ~cs.face_recognition_enabled THEN "FACE_RECOGNITION_DISABLED"
    ELSE IF IsNull(encode_face_from_base64(probe)) THEN "NO_FACE_DETECTED"
    ELSE IF face_encodings(user_id) = 0 THEN "FACE_NOT_ENROLLED"
    ELSE IF confidence_score(user_id, probe) < FACE_RECOGNITION_TOLERANCE
        THEN "LOW_CONFIDENCE"
    ELSE IF existing_attendance(table, user_id, class_id) /= 0
        THEN "ATTENDANCE_ALREADY_MARKED"
    ELSE "insert"

mark_attendance_face_strict_threshold(cs, user_id, class_id, probe, table, t) ==
    IF ~is_class_active(cs, t) THEN "CLASS_NOT_ACTIVE"
    ELSE IF ~cs.face_recognition_enabled THEN "FACE_RECOGNITION_DISABLED"
    ELSE IF face_encodings(user_id) = 0 THEN "FACE_NOT_ENROLLED"
    ELSE IF IsNull(encode_face_from_base64(probe)) THEN "NO_FACE_DETECTED"
    ELSE IF confidence_score(user_id, probe) <= FACE_RECOGNITION_TOLERANCE
        THEN "LOW_CONFIDENCE"
    ELSE IF existing_attendance(table, user_id, class_id) /= 0
        THEN "ATTENDANCE_ALREADY_MARKED"
    ELSE "insert"

mark_attendance_face_no_threshold(cs, user_id, class_id, probe, table, t) ==
    IF ~is_class_active(cs, t) THEN "CLASS_NOT_ACTIVE"
    ELSE IF ~cs.face_recognition_enabled THEN "FACE_RECOGNITION_DISABLED"
    ELSE IF face_encodings(user_id) = 0 THEN "FACE_NOT_ENROLLED"
    ELSE IF IsNull(encode_face_from_base64(probe)) THEN "NO_FACE_DETECTED"
    ELSE IF existing_attendance(table, user_id, class_id) /= 0
        THEN "ATTENDANCE_ALREADY_MARKED"
    ELSE "insert"

\* mark_attendance_face from the class-active check to the existence query;
\* the result is the response's code, or "insert" when the handler goes on
\* to create the record.
mark_attendance_face(cs, user_id, class_id, probe, table, t) ==
    IF ~is_class_active(cs, t) THEN "CLASS_NOT_ACTIVE"
    ELSE IF ~cs.face_recognition_enabled THEN "FACE_RECOGNITION_DISABLED"
    ELSE IF face_encodings(user_id) = 0 THEN "FACE_NOT_ENROLLED"
    ELSE IF IsNull(encode_face_from_base64(probe)) THEN "NO_FACE_DETECTED"
    ELSE IF compare_faces(face_encodings(user_id), probe) = <<>>
        THEN "FACE_NOT_RECOGNIZED"
    ELSE IF confidence_score(user_id, probe) < FACE_RECOGNITION_TOLERANCE
        THEN "LOW_CONFIDENCE"
    ELSE IF existing_attendance(table, user_id, class_id) /= 0
        THEN already_marked_response(
                 table[existing_attendance(table, user_id, class_id)], cs,
                 "FACE_RECOGNITION_ERROR")
    ELSE "insert"

\* ------------------------------------------------------------------- Init
\* The answer of the request that answered last: the token its record was
\* made with (0 when it made none or came by face), the response's code, the
\* record it carries (existing_attendance, for ATTENDANCE_ALREADY_MARKED) and
\* the record it created (for success); ids are positions in the table.
NoResponse ==
    [user_id |-> 0, class_id |-> 0, method |-> "none", qr_token |-> 0,
     code |-> "none", existing |-> 0, created |-> 0]

\* The session exists as create_class leaves it: its settings committed, no
\* credential stored (the commit of the QR fields raises, see ColumnBinds).
Init ==
    /\ now = 0
    /\ sessions \in [Sessions -> {ClassSession(s, c[1], c[2]) :
                         s \in StartChoices, c \in ScheduleChoices}]
    /\ attendances = <<>>
    /\ pending = <<>>
    /\ response = NoResponse
    /\ submitted = 0
    /\ tokens = 0
    /\ ops = 0
    /\ superseded = [s \in Sessions |-> {}]
    /\ issued = [s \in Sessions |-> NULL]
    /\ issuing = [s \in Sessions |-> NULL]
    /\ validating = NULL
    /\ analytics = <<>>
    /\ computing = <<>>

Tick ==
    /\ now < MaxTime
    /\ now' = now + 1
    /\ UNCHANGED <<sessions, attendances, pending, response, submitted,
                   tokens, ops, superseded, issued>>
    /\ UNCHANGED inflight
    /\ UNCHANGED derived

\* A submission request runs in two steps, between which other requests,
\* issues, settings updates and the clock may move:
\*   Check   ClassSession.query.get and the checks up to the existence query
\*           (routes/attendance.py 248-295 and 59-147); a request that fails
\*           one answers at once, one that passes all waits in pending;
\*   Insert  db.session.add + commit (297-308 and 166-178) of a pending
\*           request, then the response (310-316 and 180-188): the table
\*           has no unique constraint, so the INSERT always succeeds;
\*           timestamp is the column default datetime.utcnow at the insert.
\*           created is the record the commit made, whatever the answer.
Check(user_id, class_id, method, qr_token, probe) ==
    /\ submitted < MaxRequests
    /\ submitted' = submitted + 1
    /\ LET cs == sessions[class_id]
           code == IF method = "qr_code"
                   THEN mark_attendance_qr(cs, user_id, class_id, qr_token,
                                           attendances, now)
                   ELSE mark_attendance_face(cs, user_id, class_id, probe,
                                             attendances, now)
       IN  IF code = "insert"
           THEN /\ pending' = Append(pending,
                      [user_id |-> user_id, class_id |-> class_id,
                       method |-> method, qr_token |-> qr_token,
                       confidence_score |->
                           IF method = "qr_code" THEN 100
                           ELSE confidence_score(user_id, probe)])
                /\ UNCHANGED response
           ELSE /\ response' =
                      [user_id |-> user_id, class_id |-> class_id,
                       method |-> method, qr_token |-> 0,
                       code |-> code,
                       existing |->
                           IF code = "ATTENDANCE_ALREADY_MARKED"
                           THEN existing_attendance(attendances, user_id, class_id)
                           ELSE 0,
                       created |-> 0]
                /\ UNCHANGED pending
    /\ UNCHANGED <<now, sessions, attendances, tokens, ops, superseded, issued>>
    /\ UNCHANGED inflight
    /\ UNCHANGED derived

CheckQr ==
    \E u \in Users, s \in Sessions, k \in 0 .. tokens :
        Check(u, s, "qr_code", k, 0)

CheckFace ==
    \E u \in Users, s \in Sessions, p \in Probes :
        Check(u, s, "face_recognition", 0, p)

Insert(i) ==
    /\ i \in 1 .. Len(pending)
    /\ LET q == pending[i]
           attendance == Attendance(q.user_id, q.class_id, q.method,
                                    q.confidence_score, now)
       IN  /\ attendances' = Append(attendances, attendance)
           /\ response' =
                 [user_id |-> q.user_id, class_id |-> q.class_id,
                  method |-> q.method, qr_token |-> q.qr_token,
                  code |-> success_response(
                               attendance, sessions[q.class_id],
                               IF q.method = "qr_code" THEN "ATTENDANCE_ERROR"
                               ELSE "FACE_RECOGNITION_ERROR"),
                  existing |-> 0,
                  created |-> Len(attendances) + 1]
    /\ pending' = [j \in 1 .. Len(pending) - 1 |->
                      IF j < i THEN pending[j] ELSE pending[j + 1]]
    /\ UNCHANGED <<now, sessions, submitted, tokens, ops, superseded, issued>>
    /\ UNCHANGED inflight
    /\ UNCHANGED derived

\* The credential a row holds, as the set of [token, expires_at] it validates
\* (empty when the row holds none).
Credential(cs) ==
    IF IsNull(cs.qr_code) \/ IsNull(cs.qr_code_expires_at) THEN {}
    ELSE {[token |-> json_loads(Val(cs.qr_code)).token,
           expires_at |-> Val(cs.qr_code_expires_at)]}

\* A caller of ClassSession.generate_qr_code that commits the row.  superseded
\* is history: the credentials a later one has replaced.  issued is history:
\* what the last issue operation on the session generated.
IssueCredential(s, expiry_minutes) ==
    /\ ops < MaxOps
    /\ LET row == generate_qr_code(sessions[s], s, tokens + 1, expiry_minutes, now)
       IN  /\ sessions' = [sessions EXCEPT ![s] = row]
           /\ superseded' = [superseded EXCEPT ![s] = @ \cup Credential(sessions[s])]
           /\ issued' = [issued EXCEPT ![s] = Some(CHOOSE c \in Credential(row) : TRUE)]
    /\ tokens' = tokens + 1
    /\ ops' = ops + 1
    /\ UNCHANGED <<now, attendances, pending, response, submitted>>
    /\ UNCHANGED inflight
    /\ UNCHANGED derived

\* routes/classes.py generate_class_qr (POST /<class_id>/generate-qr) for a
\* QR-enabled session; a disabled one answers QR_CODE_DISABLED and changes
\* nothing.  The row is committed when the column binds the value assigned,
\* else the commit raises and the handler answers QR_GENERATION_ERROR.
generate_class_qr(s) ==
    /\ ops < MaxOps
    /\ sessions[s].qr_code_enabled
    /\ LET cs == sessions[s]
           qr_result == QRService_generate_class_qr(
                            s, tokens + 1, cs.attendance_window_minutes, now)
           row == [cs EXCEPT !.qr_code = Some(qr_result.qr_data),
                             !.qr_code_expires_at = Some(qr_result.expires_at)]
       IN  /\ IF ColumnBinds(row.qr_code)
                 THEN /\ sessions' = [sessions EXCEPT ![s] = row]
                      /\ superseded' = [superseded EXCEPT ![s] = @ \cup Credential(cs)]
                 ELSE UNCHANGED <<sessions, superseded>>
           /\ issued' = [issued EXCEPT ![s] =
                            Some([token |-> qr_result.token,
                                  expires_at |-> qr_result.expires_at])]
    /\ tokens' = tokens + 1
    /\ ops' = ops + 1
    /\ UNCHANGED <<now, attendances, pending, response, submitted>>
    /\ UNCHANGED inflight
    /\ UNCHANGED derived

\* routes/classes.py update_class_settings with one key in the body.
SettingKeys == {"is_active", "qr_code_enabled", "face_recognition_enabled"}
SettingValues(key) == BOOLEAN

update_class_settings(s, key, value) ==
    /\ ops < MaxOps
    /\ sessions[s][key] /= value
    /\ sessions' = [sessions EXCEPT ![s] = [@ EXCEPT ![key] = value]]
    /\ ops' = ops + 1
    /\ UNCHANGED <<now, attendances, pending, response, submitted, tokens,
                   superseded, issued>>
    /\ UNCHANGED inflight
    /\ UNCHANGED derived

Next ==
    \/ Tick
    \/ \E s \in Sessions, m \in ExpiryChoices : IssueCredential(s, m)
    \/ \E s \in Sessions : generate_class_qr(s)
    \/ \E s \in Sessions, k \in SettingKeys :
          \E v \in SettingValues(k) : update_class_settings(s, k, v)
    \/ CheckQr
    \/ CheckFace
    \/ \E i \in 1 .. MaxRequests : Insert(i)

Spec == Init /\ [][Next]_vars

\* The clock and the operations that write session rows.  Submissions never
\* write a session row, so the rows (and now, tokens, ops, superseded, issued)
\* reachable here are exactly those reachable under Spec.
SessionsNext ==
    \/ Tick
    \/ \E s \in Sessions, m \in ExpiryChoices : IssueCredential(s, m)
    \/ \E s \in Sessions : generate_class_qr(s)
    \/ \E s \in Sessions, k \in SettingKeys :
          \E v \in SettingValues(k) : update_class_settings(s, k, v)

SessionsSpec == Init /\ [][SessionsNext]_vars

\* ------------------------------------- issue and validation, step by step
\* An issue request and a validation request, each followed statement by
\* statement.  Each request works on the row object its own ORM session
\* loaded; the database row changes only at a commit.
\*   IssueGenerate      the row is loaded and the new token and expiry are
\*                      computed (class_model.py 54-64; classes.py 288, 314-318)
\*   IssueAssignCode    self.qr_code = ...            (class_model.py 66; classes.py 328)
\*   IssueAssignExpiry  self.qr_code_expires_at = ... (class_model.py 67; classes.py 329)
\*   IssueCommit        db.session.commit()           (classes.py 331)
\*   ValidateLoad       ClassSession.query.get        (routes/attendance.py 249)
\*   ValidateDecide     class_session.validate_qr_code(qr_token) (274)
IssueKinds == {"generate_qr_code", "generate_class_qr"}

IssueGenerate(s, kind, expiry_minutes) ==
    /\ ops < MaxOps
    /\ IsNull(issuing[s])
    /\ kind = "generate_class_qr" => sessions[s].qr_code_enabled
    /\ LET cs == sessions[s]
           generated ==
               IF kind = "generate_qr_code"
               THEN LET row == generate_qr_code(cs, s, tokens + 1,
                                                expiry_minutes, now)
                    IN  [qr_code |-> Val(row.qr_code),
                         expires_at |-> Val(row.qr_code_expires_at),
                         token |-> tokens + 1]
               ELSE LET qr_result == QRService_generate_class_qr(
                                         s, tokens + 1,
                                         cs.attendance_window_minutes, now)
                    IN  [qr_code |-> qr_result.qr_data,
                         expires_at |-> qr_result.expires_at,
                         token |-> qr_result.token]
       IN  issuing' = [issuing EXCEPT ![s] =
                          Some([row |-> cs, generated |-> generated,
                                pc |-> "generated"])]
    /\ tokens' = tokens + 1
    /\ ops' = ops + 1
    /\ UNCHANGED <<now, sessions, attendances, pending, response, submitted,
                   superseded, issued, validating>>
    /\ UNCHANGED derived

IssueAssignCode(s) ==
    /\ ~IsNull(issuing[s])
    /\ Val(issuing[s]).pc = "generated"
    /\ LET i == Val(issuing[s])
       IN  issuing' = [issuing EXCEPT ![s] =
                          Some([i EXCEPT !.row.qr_code = Some(i.generated.qr_code),
                                         !.pc = "code"])]
    /\ UNCHANGED <<now, sessions, attendances, pending, response, submitted,
                   tokens, ops, superseded, issued, validating>>
    /\ UNCHANGED derived

IssueAssignExpiry(s) ==
    /\ ~IsNull(issuing[s])
    /\ Val(issuing[s]).pc = "code"
    /\ LET i == Val(issuing[s])
       IN  issuing' = [issuing EXCEPT ![s] =
                          Some([i EXCEPT !.row.qr_code_expires_at =
                                             Some(i.generated.expires_at),
                                         !.pc = "expiry"])]
    /\ UNCHANGED <<now, sessions, attendances, pending, response, submitted,
                   tokens, ops, superseded, issued, validating>>
    /\ UNCHANGED derived

commit_code_only(stored, row) ==
    [stored EXCEPT !.qr_code = row.qr_code]

\* db.session.commit() of an issue: one UPDATE statement, in one transaction,
\* that sets the columns the request assigned on its row object.
commit(stored, row) ==
    [stored EXCEPT !.qr_code = row.qr_code,
                   !.qr_code_expires_at = row.qr_code_expires_at]

IssueCommit(s) ==
    /\ ~IsNull(issuing[s])
    /\ Val(issuing[s]).pc = "expiry"
    /\ LET i == Val(issuing[s])
       IN  /\ IF ColumnBinds(i.row.qr_code)
                 THEN /\ sessions' = [sessions EXCEPT ![s] = commit(@, i.row)]
                      /\ superseded' =
                            [superseded EXCEPT ![s] = @ \cup Credential(sessions[s])]
                 ELSE UNCHANGED <<sessions, superseded>>
           /\ issued' = [issued EXCEPT ![s] =
                            Some([token |-> i.generated.token,
                                  expires_at |-> i.generated.expires_at])]
    /\ issuing' = [issuing EXCEPT ![s] = NULL]
    /\ UNCHANGED <<now, attendances, pending, response, submitted, tokens, ops,
                   validating>>
    /\ UNCHANGED derived

ValidateLoad(s, qr_token) ==
    /\ IF IsNull(validating) THEN TRUE ELSE Val(validating).pc = "decided"
    /\ validating' = Some([class_id |-> s, row |-> sessions[s],
                           qr_token |-> qr_token, pc |-> "loaded",
                           valid |-> FALSE])
    /\ UNCHANGED <<now, sessions, attendances, pending, response, submitted,
                   tokens, ops, superseded, issued, issuing>>
    /\ UNCHANGED derived

ValidateDecide ==
    /\ ~IsNull(validating)
    /\ Val(validating).pc = "loaded"
    /\ LET v == Val(validating)
       IN  validating' = Some([v EXCEPT !.pc = "decided",
                                !.valid = validate_qr_code(v.row, v.qr_token, now)])
    /\ UNCHANGED <<now, sessions, attendances, pending, response, submitted,
                   tokens, ops, superseded, issued, issuing>>
    /\ UNCHANGED derived

IssueNext ==
    \/ Tick
    \/ \E s \in Sessions, kind \in IssueKinds, m \in ExpiryChoices :
          IssueGenerate(s, kind, m)
    \/ \E s \in Sessions : IssueAssignCode(s)
    \/ \E s \in Sessions : IssueAssignExpiry(s)
    \/ \E s \in Sessions : IssueCommit(s)
    \/ \E s \in Sessions, k \in 0 .. tokens : ValidateLoad(s, k)
    \/ ValidateDecide

IssueSpec == Init /\ [][IssueNext]_vars

\* ------------------------------------------ verification and grace period
\* Users who pass can_access_admin_features (faculty, admin).
Verifiers == {3, 4}
NotesChoices == {"", "checked"}
GraceChoices == {0, 10}

\* routes/attendance.py verify_attendance (POST /verify/<attendance_id>) by a
\* faculty or admin user.  The record is changed and committed before the
\* response body is built with attendance.to_dict_with_user().
verify_attendance(attendance_id, current_user_id, notes) ==
    /\ IF attendance_id \in 1 .. Len(attendances)
          THEN /\ ops < MaxOps
               /\ ops' = ops + 1
               /\ LET attendance == verify(attendances[attendance_id],
                                           current_user_id, notes, now)
                  IN  /\ attendances' =
                            [attendances EXCEPT ![attendance_id] = attendance]
                      /\ response' =
                            [user_id |-> current_user_id, class_id |-> 0,
                             method |-> "verify", qr_token |-> 0,
                             code |-> success_response(
                                          attendance,
                                          sessions[attendance.class_id],
                                          "VERIFICATION_ERROR"),
                             existing |-> attendance_id, created |-> 0]
          ELSE /\ response' =
                     [user_id |-> current_user_id, class_id |-> 0,
                      method |-> "verify", qr_token |-> 0,
                      code |-> "ATTENDANCE_NOT_FOUND",
                      existing |-> 0, created |-> 0]
               /\ UNCHANGED <<attendances, ops>>
    /\ UNCHANGED <<now, sessions, pending, submitted, tokens, superseded,
                   issued>>
    /\ UNCHANGED inflight
    /\ UNCHANGED derived

\* Face submissions, manual verification and updates of the grace period.
RecordsNext ==
    \/ Tick
    \/ CheckFace
    \/ \E i \in 1 .. MaxRequests : Insert(i)
    \/ \E id \in 1 .. MaxRequests, u \in Verifiers, n \in NotesChoices :
          verify_attendance(id, u, n)
    \/ \E s \in Sessions, g \in GraceChoices :
          update_class_settings(s, "grace_period_minutes", g)

RecordsSpec == Init /\ [][RecordsNext]_vars

\* Submissions through both channels against credentials issued by
\* ClassSession.generate_qr_code, with settings updates and the clock.
SubmitNext ==
    \/ Tick
    \/ \E s \in Sessions, m \in ExpiryChoices : IssueCredential(s, m)
    \/ \E s \in Sessions, k \in SettingKeys :
          \E v \in SettingValues(k) : update_class_settings(s, k, v)
    \/ CheckQr
    \/ CheckFace
    \/ \E i \in 1 .. MaxRequests : Insert(i)

SubmitSpec == Init /\ [][SubmitNext]_vars

\* Face submissions and settings updates: the face channel on its own.
FaceNext ==
    \/ Tick
    \/ CheckFace
    \/ \E i \in 1 .. MaxRequests : Insert(i)
    \/ \E s \in Sessions, k \in SettingKeys :
          \E v \in SettingValues(k) : update_class_settings(s, k, v)

FaceSpec == Init /\ [][FaceNext]_vars

\* ------------------------------------------------------ AttendanceAnalytics
\* A calendar day is MinutesPerDay minutes long; datetime.date() and
\* datetime.time() of a time t are day(t) and time_of_day(t).
MinutesPerDay == 2
MaxComputes == 2

day(t) == t \div MinutesPerDay
time_of_day(t) == t % MinutesPerDay
Dates == {day(t) : t \in Times}

\* Values update_class_settings stores in max_students: the handler assigns
\* data['max_students'] as it comes, without validation.
EnrollmentChoices == {Some(0 - 1), Some(1)}

Max(a, b) == IF a >= b THEN a ELSE b

RECURSIVE Sum(_)
Sum(seq) == IF seq = <<>> THEN 0 ELSE Head(seq) + Sum(Tail(seq))

\* (present_count / max(1, total_students)) * 100, in hundredths of a percent.
attendance_rate(present_count, total_students) ==
    (present_count * 10000) \div Max(1, total_students)

\* AttendanceAnalytics.__init__; counts holds the keyword arguments.
AttendanceAnalytics(class_id, date, total_students, present_count, counts) ==
    [class_id |-> class_id,
     date |-> date,
     total_students |-> total_students,
     present_count |-> present_count,
     absent_count |-> total_students - present_count,
     attendance_rate |-> attendance_rate(present_count, total_students),
     late_count |-> counts.late_count,
     face_recognition_count |-> counts.face_recognition_count,
     qr_code_count |-> counts.qr_code_count,
     verified_count |-> counts.verified_count,
     peak_attendance_time |-> counts.peak_attendance_time,
     average_confidence_score |-> counts.average_confidence_score]

\* AttendanceAnalytics.update_counts: total_students and peak_attendance_time
\* are not assigned, average_confidence_score only when the new one is not
\* None.
update_counts(row, present_count, counts) ==
    [row EXCEPT
        !.present_count = present_count,
        !.absent_count = row.total_students - present_count,
        !.late_count = counts.late_count,
        !.face_recognition_count = counts.face_recognition_count,
        !.qr_code_count = counts.qr_code_count,
        !.verified_count = counts.verified_count,
        !.attendance_rate = attendance_rate(present_count, row.total_students),
        !.average_confidence_score =
            IF IsNull(counts.average_confidence_score) THEN @
            ELSE counts.average_confidence_score]

\* The records of a session stamped on target_date (analytics.py 107-113).
attendances_on(table, class_id, target_date) ==
    LET on_date(a) == a.class_id = class_id /\ day(a.timestamp) = target_date
    IN  SelectSeq(table, on_date)

\* max(set(attendance_times), key=attendance_times.count): a most frequent
\* time of day; which one, among several equally frequent, is left to the
\* iteration order of the set.  The set of values the expression can take.
peak_attendance_times(records) ==
    LET times == {time_of_day(records[i].timestamp) : i \in DOMAIN records}
        count(t) == Cardinality({i \in DOMAIN records :
                                    time_of_day(records[i].timestamp) = t})
    IN  IF records = <<>> THEN {NULL}
        ELSE {Some(t) : t \in {t \in times : \A o \in times : count(o) <= count(t)}}

\* AttendanceAnalytics.query.filter_by(class_id=, date=).first(): the id
\* (position in the table) of the first matching row, 0 for None.
existing_analytics(table, class_id, target_date) ==
    LET ids == {i \in 1 .. Len(table) :
                  table[i].class_id = class_id /\ table[i].date = target_date}
    IN  IF ids = {} THEN 0 ELSE Min(ids)

\* generate_daily_analytics from its first statement to the lookup of the
\* existing row (analytics.py 96-132), on session row cs, the attendances
\* table and the analytics table as they are then; peak is the value the
\* peak-time expression took.  The statistics it computed and the row it
\* found, or the exception a.is_late() raised on the way.
generate_daily_analytics(cs, class_id, target_date, table, snapshots, peak) ==
    LET records == attendances_on(table, class_id, target_date)
        late == late_count(records, class_id, cs)
        total_students ==
            IF ~IsNull(cs.max_students) /\ Val(cs.max_students) /= 0
            THEN Val(cs.max_students)
            ELSE Cardinality({records[i].user_id : i \in DOMAIN records})
        confidence_scores == [i \in DOMAIN records |-> records[i].confidence_score]
    IN  IF late.raised /= "none" THEN late
        ELSE Returns(
            [class_id |-> class_id,
             date |-> target_date,
             total_students |-> total_students,
             present_count |-> Len(records),
             late_count |-> late.value,
             face_recognition_count |->
                 Cardinality({i \in DOMAIN records :
                                 records[i].method = "face_recognition"}),
             qr_code_count |->
                 Cardinality({i \in DOMAIN records :
                                 records[i].method = "qr_code"}),
             verified_count |->
                 Cardinality({i \in DOMAIN records : records[i].is_verified}),
             average_confidence_score |->
                 IF confidence_scores = <<>> THEN NULL
                 ELSE Some(Sum(confidence_scores) \div Len(confidence_scores)),
             peak_attendance_time |-> peak,
             analytics |-> existing_analytics(snapshots, class_id, target_date)])

\* The row a call stores when it found none (analytics.py 144-156).
created_analytics(call) ==
    AttendanceAnalytics(call.class_id, call.date, call.total_students,
                        call.present_count, call)

\* A call of generate_daily_analytics runs in two steps, between which other
\* calls and requests may move:
\*   DailyAnalyticsQuery   lines 96-132; a call that raises ends there;
\*   DailyAnalyticsCommit  lines 134-158: update_counts on the row found, or
\*                         add of a new row, then commit.  The table has no
\*                         unique constraint on (class_id, date), so the
\*                         INSERT always succeeds.
\* A call starts while the rows stored and the calls in flight number fewer
\* than MaxComputes.
DailyAnalyticsQuery(class_id, target_date) ==
    /\ Len(analytics) + Len(computing) < MaxComputes
    /\ \E peak \in peak_attendance_times(
                       attendances_on(attendances, class_id, target_date)) :
          LET call == generate_daily_analytics(
                          sessions[class_id], class_id, target_date,
                          attendances, analytics, peak)
          IN  /\ call.raised = "none"
              /\ computing' = Append(computing, call.value)
    /\ UNCHANGED <<now, sessions, attendances, pending, response, submitted,
                   tokens, ops, superseded, issued, analytics>>
    /\ UNCHANGED inflight

DailyAnalyticsCommit(i) ==
    /\ i \in 1 .. Len(computing)
    /\ LET call == computing[i]
       IN  analytics' =
               IF call.analytics /= 0
               THEN [analytics EXCEPT ![call.analytics] =
                        update_counts(@, call.present_count, call)]
               ELSE Append(analytics, created_analytics(call))
    /\ computing' = [j \in 1 .. Len(computing) - 1 |->
                        IF j < i THEN computing[j] ELSE computing[j + 1]]
    /\ UNCHANGED <<now, sessions, attendances, pending, response, submitted,
                   tokens, ops, superseded, issued>>
    /\ UNCHANGED inflight

\* Face submissions, updates of max_students and daily analytics.
AnalyticsNext ==
    \/ Tick
    \/ CheckFace
    \/ \E i \in 1 .. MaxRequests : Insert(i)
    \/ \E s \in Sessions, m \in EnrollmentChoices :
          update_class_settings(s, "max_students", m)
    \/ \E s \in Sessions, d \in Dates : DailyAnalyticsQuery(s, d)
    \/ \E i \in 1 .. MaxComputes : DailyAnalyticsCommit(i)

AnalyticsSpec == Init /\ [][AnalyticsNext]_vars

\* --------------------------------------------------------- trends and risk
\* models/analytics.py binds the names SQLAlchemy, datetime, date and json
\* (lines 1-3) and no other: timedelta is unbound in the module, and
\* evaluating the name (lines 165, 244) raises NameError.
analytics_module_names ==
    {"SQLAlchemy", "datetime", "date", "json", "db", "AttendanceAnalytics"}

\* sorted(seq, key=...) with keys[i] the key of seq[i]: ascending, equal keys
\* in their original order.
sorted(seq, keys) ==
    LET n == Len(seq)
        p == CHOOSE f \in [1 .. n -> 1 .. n] :
                 /\ \A i, j \in 1 .. n : i /= j => f[i] /= f[j]
                 /\ \A i, j \in 1 .. n :
                       i < j => \/ keys[f[i]] < keys[f[j]]
                                \/ keys[f[i]] = keys[f[j]] /\ f[i] < f[j]
    IN  [i \in 1 .. n |-> seq[p[i]]]

\* analytics_list[-7:] and analytics_list[:-7]
last7(list) ==
    [i \in 1 .. (IF Len(list) < 7 THEN Len(list) ELSE 7) |->
        list[Len(list) - (IF Len(list) < 7 THEN Len(list) ELSE 7) + i]]
allbutlast7(list) ==
    [i \in 1 .. (IF Len(list) < 7 THEN 0 ELSE Len(list) - 7) |-> list[i]]

\* AttendanceAnalytics._calculate_trend_direction.  Rates are hundredths of a
\* percent; the difference of the two means is compared with 5 exactly, by
\* cross-multiplying the sums with the lengths.
_calculate_trend_direction(analytics_list) ==
    LET recent_rates == [i \in DOMAIN last7(analytics_list) |->
                            last7(analytics_list)[i].attendance_rate]
        older_rates == [i \in DOMAIN allbutlast7(analytics_list) |->
                           allbutlast7(analytics_list)[i].attendance_rate]
        scale == Len(recent_rates) * Len(older_rates)
        difference == Sum(recent_rates) * Len(older_rates)
                        - Sum(older_rates) * Len(recent_rates)
    IN  IF Len(analytics_list) < 2 THEN "stable"
        ELSE IF older_rates = <<>> THEN "stable"
        ELSE IF difference > 500 * scale THEN "improving"
        ELSE IF difference < 0 - 500 * scale THEN "declining"
        ELSE "stable"

\* AttendanceAnalytics._calculate_trend_summary: the totals and the trend
\* direction ({} for an empty list; the two averages are left out).
_calculate_trend_summary(analytics_list) ==
    IF analytics_list = <<>> THEN [total_days |-> 0]
    ELSE [total_days |-> Len(analytics_list),
          total_students |->
              Sum([i \in DOMAIN analytics_list |-> analytics_list[i].total_students]),
          total_present |->
              Sum([i \in DOMAIN analytics_list |-> analytics_list[i].present_count]),
          total_absent |->
              Sum([i \in DOMAIN analytics_list |-> analytics_list[i].absent_count]),
          total_late |->
              Sum([i \in DOMAIN analytics_list |-> analytics_list[i].late_count]),
          trend_direction |-> _calculate_trend_direction(analytics_list)]

\* The default of the parameter days of get_attendance_trends and of
\* get_risk_students.
DEFAULT_DAYS == 30

\* AttendanceAnalytics.get_attendance_trends(class_id, days) called on day
\* today; class_id 0 stands for None.  Its second statement evaluates
\* timedelta.
get_attendance_trends(snapshots, class_id, days, today) ==
    IF "timedelta" \notin analytics_module_names THEN Raises("NameError")
    ELSE LET start_date == today - days
             listed == LET in_period(a) ==
                               /\ a.date >= start_date /\ a.date <= today
                               /\ class_id /= 0 => a.class_id = class_id
                       IN  SelectSeq(snapshots, in_period)
             analytics_list ==
                 sorted(listed, [i \in DOMAIN listed |-> listed[i].date])
         IN  Returns([trends |-> analytics_list,
                      summary |-> _calculate_trend_summary(analytics_list)])

\* Thresholds (percent) and window lengths (days) of a risk query.
Thresholds == {50, 100}
WindowDays == {1, 2}

\* round((count / max(1, days)) * 100, 2) in hundredths of a percent.
rounded_rate(count, days) ==
    (2 * count * 10000 + Max(1, days)) \div (2 * Max(1, days))

\* The list both risk functions build (analytics.py 250-268; routes/
\* analytics.py 320-341) from the records selected for each student: the
\* students whose unrounded rate is below the threshold, sorted by the
\* rounded rate.  counts[u] is len(attendances) of student u.
risk_list(counts, threshold, days) ==
    LET students == sorted([i \in 1 .. Cardinality(Users) |-> i],
                           [i \in 1 .. Cardinality(Users) |-> i])
        at_risk(u) == counts[u] * 100 < threshold * Max(1, days)
        risk_students ==
            LET entry(u) == [student |-> u,
                             attendance_rate |-> rounded_rate(counts[u], days),
                             attendance_count |-> counts[u]]
            IN  [i \in DOMAIN SelectSeq(students, at_risk) |->
                    entry(SelectSeq(students, at_risk)[i])]
    IN  sorted(risk_students,
               [i \in DOMAIN risk_students |-> risk_students[i].attendance_rate])

\* AttendanceAnalytics.get_risk_students(threshold, days) at time t.  Its
\* second statement evaluates timedelta.
get_risk_students(table, threshold, days, t) ==
    IF "timedelta" \notin analytics_module_names THEN Raises("NameError")
    ELSE LET start_date == t - days * MinutesPerDay
             counts == [u \in Users |->
                 Cardinality({i \in 1 .. Len(table) :
                     /\ table[i].user_id = u
                     /\ table[i].timestamp >= start_date
                     /\ table[i].timestamp <= t})]
         IN  Returns(risk_list(counts, threshold, days))

\* routes/analytics.py get_class_risk_students(class_id, threshold, days) at
\* time t: the same computation over the records of one session (the module
\* imports timedelta).
get_class_risk_students(table, class_id, threshold, days, t) ==
    LET start_date == t - days * MinutesPerDay
        counts == [u \in Users |->
            Cardinality({i \in 1 .. Len(table) :
                /\ table[i].user_id = u
                /\ table[i].class_id = class_id
                /\ table[i].timestamp >= start_date
                /\ table[i].timestamp <= t})]
    IN  risk_list(counts, threshold, days)

\* ================================================================= claims
Records(u, s) ==
    {i \in 1 .. Len(attendances) :
        attendances[i].user_id = u /\ attendances[i].class_id = s}

\* Evidence that passes the channel's own check at time t on row cs.
ValidQr(cs, k, t) ==
    is_class_active(cs, t) /\ cs.qr_code_enabled /\ validate_qr_code(cs, k, t)

ValidFace(cs, u, p, t) ==
    /\ is_class_active(cs, t) /\ cs.face_recognition_enabled
    /\ face_encodings(u) > 0 /\ p /= NoFace
    /\ 100 - p >= FACE_RECOGNITION_TOLERANCE

\* C1: in every reachable state the ledger holds at most one record per
\* (user id, session id) pair, whatever the interleaving of submissions.
C1_AtMostOneRecordPerPair ==
    \A u \in Users, s \in Sessions : Cardinality(Records(u, s)) <= 1

\* C2: of the submissions with valid evidence for a (user, session) pair
\* exactly one is answered Recorded and exactly one record exists: the call
\* that created a record is answered Recorded and its record is the pair's
\* only record, and an AlreadyMarked answer carries the pair's only record.
C2_OneRecordedOthersAlreadyMarked ==
    /\ response.created /= 0 =>
          /\ response.code = "success"
          /\ Records(response.user_id, response.class_id) = {response.created}
    /\ response.code = "ATTENDANCE_ALREADY_MARKED" =>
          Records(response.user_id, response.class_id) = {response.existing}

\* C3: when a record exists for (user, session), a submission by that user
\* for that session with otherwise valid evidence, through either channel,
\* answers AlreadyMarked carrying an existing record of the pair and creates
\* nothing.
C3_SequentialDedup ==
    /\ \A u \in Users, s \in Sessions :
          Records(u, s) /= {} =>
            /\ \A k \in 0 .. tokens :
                  ValidQr(sessions[s], k, now) =>
                    mark_attendance_qr(sessions[s], u, s, k, attendances, now)
                        = "ATTENDANCE_ALREADY_MARKED"
            /\ \A p \in Probes :
                  ValidFace(sessions[s], u, p, now) =>
                    mark_attendance_face(sessions[s], u, s, p, attendances, now)
                        = "ATTENDANCE_ALREADY_MARKED"
    /\ response.code = "ATTENDANCE_ALREADY_MARKED" =>
          /\ response.created = 0
          /\ response.existing
                \in Records(response.user_id, response.class_id)

\* C4: for every session row and every time t, is_class_active is false when
\* t < start, when t > start + window, and when an end time is set and
\* t > end time; so past the window end it is false at every later time.
C4_ClosedOutsideWindow ==
    \A s \in Sessions :
        LET cs == sessions[s]
            window_end == cs.start_time + cs.attendance_window_minutes
        IN  /\ \A t \in Times :
                  (\/ t < cs.start_time
                   \/ t > window_end
                   \/ (~IsNull(cs.end_time) /\ t > Val(cs.end_time)))
                      => ~is_class_active(cs, t)
            /\ now > window_end =>
                  \A t \in now .. MaxTime : ~is_class_active(cs, t)

\* C4 witness: the clock has passed the window end of a session that was
\* open at the window end itself.
C4_Witness ==
    \E s \in Sessions :
        LET cs == sessions[s]
            window_end == cs.start_time + cs.attendance_window_minutes
        IN  now > window_end /\ is_class_active(cs, window_end)

\* C5: while a session's active flag is false, is_class_active is false and
\* every QR or face submission for it is answered CLASS_NOT_ACTIVE.
C5_InactiveSessionRejects ==
    \A s \in Sessions :
        ~sessions[s].is_active =>
            /\ ~is_class_active(sessions[s], now)
            /\ \A u \in Users, k \in 0 .. tokens :
                  mark_attendance_qr(sessions[s], u, s, k, attendances, now)
                      = "CLASS_NOT_ACTIVE"
            /\ \A u \in Users, p \in Probes :
                  mark_attendance_face(sessions[s], u, s, p, attendances, now)
                      = "CLASS_NOT_ACTIVE"

\* C6: is_attendance_window_open(session, t) is true exactly when
\* start <= t <= start + window, and is_class_active implies it.
C6_WindowOpenIffInWindow ==
    \A s \in Sessions, t \in Times :
        LET cs == sessions[s] IN
        /\ is_attendance_window_open(cs, t) <=>
              (cs.start_time <= t
                  /\ t <= cs.start_time + cs.attendance_window_minutes)
        /\ is_class_active(cs, t) => is_attendance_window_open(cs, t)

C8_ValidateIffCurrentAndUnexpired ==
    \A s \in Sessions, k \in 0 .. tokens, t \in Times :
        LET cs == sessions[s]
            accepts == /\ ~IsNull(cs.qr_code)
                       /\ ~IsNull(cs.qr_code_expires_at)
                       /\ Val(cs.qr_code).json.token = k
                       /\ t <= Val(cs.qr_code_expires_at)
        IN  /\ validate_qr_code(cs, k, t) <=> accepts
            /\ QRService_validate_qr(k, cs.qr_code, t).valid <=> accepts

\* C8 witness: the clock stands at the stored expiry of an open session and
\* a QR submission with the stored token passes validation.
C8_Witness ==
    \E s \in Sessions :
        /\ ~IsNull(sessions[s].qr_code_expires_at)
        /\ now = Val(sessions[s].qr_code_expires_at)
        /\ \E k \in 1 .. tokens :
              mark_attendance_qr(sessions[s], 1, s, k, attendances, now) = "insert"

\* C9: after an issue operation on a QR-enabled session, a QR submission
\* presenting the token it generated, at a time <= the expiry it generated,
\* with no later issue and the session open, passes credential validation.
C9_IssueValidateRoundTrip ==
    \A s \in Sessions :
        (/\ ~IsNull(issued[s])
         /\ sessions[s].qr_code_enabled
         /\ is_class_active(sessions[s], now)
         /\ now <= Val(issued[s]).expires_at)
            => /\ validate_qr_code(sessions[s], Val(issued[s]).token, now)
               /\ \A u \in Users :
                     mark_attendance_qr(sessions[s], u, s, Val(issued[s]).token,
                                        attendances, now) /= "INVALID_QR_CODE"

\* The reason a validation of token k at time t on row cs ends as it does.
Cause(cs, k, t) ==
    IF IsNull(cs.qr_code) \/ IsNull(cs.qr_code_expires_at) THEN "NoCredential"
    ELSE IF Val(cs.qr_code).json.token /= k THEN "TokenMismatch"
    ELSE IF t > Val(cs.qr_code_expires_at) THEN "Expired"
    ELSE "Accepted"

\* C10: validation has three distinguishable rejections (NoCredential,
\* TokenMismatch, Expired): two QR submissions to an open, QR-enabled session
\* that are rejected for different reasons are answered with different codes.
C10_RejectionsDistinguishable ==
    \A s \in Sessions, k1 \in 0 .. tokens, k2 \in 0 .. tokens :
        LET cs == sessions[s] IN
        (/\ is_class_active(cs, now) /\ cs.qr_code_enabled
         /\ Cause(cs, k1, now) /= "Accepted"
         /\ Cause(cs, k2, now) /= "Accepted"
         /\ Cause(cs, k1, now) /= Cause(cs, k2, now))
            => mark_attendance_qr(cs, 1, s, k1, attendances, now)
                 /= mark_attendance_qr(cs, 1, s, k2, attendances, now)

\* A row holds a whole credential: no token and no expiry, or a token text
\* and the expiry that was generated with it (the text embeds that expiry).
WholeCredential(row) ==
    IF IsNull(row.qr_code) THEN IsNull(row.qr_code_expires_at)
    ELSE /\ ~IsNull(row.qr_code_expires_at)
         /\ IsStr(Val(row.qr_code))
         /\ json_loads(Val(row.qr_code)).expires_at = Val(row.qr_code_expires_at)

\* C11: issuance is atomic with respect to concurrent validations: in every
\* interleaving of the statements of an issue with a validation, the row the
\* validation decides on, and the database row itself, hold the old
\* (token, expiry) pair or the new one, never the token of one issue with the
\* expiry of another.
C11_ValidationObservesWholeCredential ==
    /\ \A s \in Sessions : WholeCredential(sessions[s])
    /\ ~IsNull(validating) => WholeCredential(Val(validating).row)

\* C11 witness: a validation loaded the row, an issue then replaced the
\* credential, and the validation accepted the token against the old pair
\* it had loaded.
C11_Witness ==
    /\ ~IsNull(validating)
    /\ LET v == Val(validating)
       IN  /\ v.pc = "decided"
           /\ v.valid
           /\ ~IsNull(sessions[v.class_id].qr_code)
           /\ v.row.qr_code /= sessions[v.class_id].qr_code

\* The session is open and its face channel enabled.
FaceOpen(cs, t) == is_class_active(cs, t) /\ cs.face_recognition_enabled

\* C12: a face submission by a user with no enrolled face vector, to an open
\* session with the face channel enabled, is answered FACE_NOT_ENROLLED
\* whatever the probe, and no face record of such a user exists.
C12_NoEnrollmentRejected ==
    /\ \A s \in Sessions, u \in Users, p \in Probes :
          (face_encodings(u) = 0 /\ FaceOpen(sessions[s], now)) =>
              mark_attendance_face(sessions[s], u, s, p, attendances, now)
                  = "FACE_NOT_ENROLLED"
    /\ \A i \in 1 .. Len(attendances) :
          attendances[i].method = "face_recognition" =>
              face_encodings(attendances[i].user_id) > 0
    /\ response.code = "FACE_NOT_ENROLLED" => response.created = 0

\* C12 witness: a face submission of the user without enrollment was answered
\* FACE_NOT_ENROLLED.
C12_Witness ==
    /\ response.code = "FACE_NOT_ENROLLED"
    /\ face_encodings(response.user_id) = 0

\* C13: when the extractor finds no face in the probe, the submission of an
\* enrolled user to an open, face-enabled session is answered
\* NO_FACE_DETECTED and creates nothing; a probe with a face is never
\* answered NO_FACE_DETECTED, so the code is distinct from LOW_CONFIDENCE and
\* from the generic FACE_RECOGNITION_ERROR.
C13_NoFaceDetectedRejected ==
    /\ \A s \in Sessions, u \in Users :
          (face_encodings(u) > 0 /\ FaceOpen(sessions[s], now)) =>
              /\ mark_attendance_face(sessions[s], u, s, NoFace, attendances, now)
                    = "NO_FACE_DETECTED"
              /\ \A p \in Distances :
                    mark_attendance_face(sessions[s], u, s, p, attendances, now)
                        /= "NO_FACE_DETECTED"
    /\ response.code = "NO_FACE_DETECTED" => response.created = 0

\* C13 witness: a face submission was answered NO_FACE_DETECTED.
C13_Witness == response.code = "NO_FACE_DETECTED"

\* C14: with confidence = 1 - min(distances), a probe whose confidence
\* equals the threshold is accepted (with no record yet, the handler goes on
\* to create one) and a probe whose confidence is below the threshold is
\* answered LOW_CONFIDENCE and creates nothing.
C14_ConfidenceBoundary ==
    /\ \A s \in Sessions, u \in Users, p \in Distances :
          (face_encodings(u) > 0 /\ FaceOpen(sessions[s], now)) =>
              /\ confidence_score(u, p) = FACE_RECOGNITION_TOLERANCE =>
                    mark_attendance_face(sessions[s], u, s, p, <<>>, now) = "insert"
              /\ confidence_score(u, p) < FACE_RECOGNITION_TOLERANCE =>
                    mark_attendance_face(sessions[s], u, s, p, attendances, now)
                        = "LOW_CONFIDENCE"
    /\ response.code = "LOW_CONFIDENCE" => response.created = 0

\* C14 witness: a record was made from a probe at exactly the threshold, and
\* a later probe was answered LOW_CONFIDENCE.
C14_Witness ==
    /\ response.code = "LOW_CONFIDENCE"
    /\ \E i \in 1 .. Len(attendances) :
          /\ attendances[i].method = "face_recognition"
          /\ attendances[i].confidence_score = FACE_RECOGNITION_TOLERANCE

\* At least one enrolled vector of user u lies within the match tolerance of
\* the probe.
WithinTolerance(u, p) ==
    LET face_distances == face_distance(face_encodings(u), p)
    IN  \E i \in DOMAIN face_distances :
            face_distances[i] <= FaceRecognitionService_tolerance

C16_LateBoundary ==
    \A i \in 1 .. Len(attendances), g \in GraceChoices :
        LET a == attendances[i]
            cs == sessions[a.class_id]
        IN  is_late(a, Some(cs), g)
              = Returns(a.timestamp > cs.start_time + g)

\* C17: every view of a record classifies it by the grace period its session
\* has now: the record view's is_late and status, and the late count of the
\* session statistics and daily snapshot, equal timestamp > start +
\* session.grace_period_minutes, also after a settings update changed it.
C17_LatenessUsesSessionGrace ==
    \A s \in Sessions :
        LET cs == sessions[s]
            Late(a) == a.timestamp > cs.start_time + cs.grace_period_minutes
            ids == {i \in 1 .. Len(attendances) : attendances[i].class_id = s}
        IN  /\ \A i \in ids :
                  LET view == to_dict(attendances[i], Some(cs))
                  IN  /\ view.raised = "none"
                      /\ view.value.is_late = Late(attendances[i])
                      /\ view.value.status
                            = (IF Late(attendances[i]) THEN "late" ELSE "present")
            /\ ids /= {} =>
                  late_count(attendances, s, cs)
                      = Returns(Cardinality({i \in ids : Late(attendances[i])}))

\* What verification must leave alone.
Core(a) ==
    [user_id |-> a.user_id, class_id |-> a.class_id, timestamp |-> a.timestamp,
     method |-> a.method, confidence_score |-> a.confidence_score]

\* C20: a verify step leaves the record verified, also when it already was;
\* it changes no record's user, session, timestamp, channel or confidence,
\* changes no other record at all, and creates and deletes nothing, so the
\* number of records of every (user, session) pair is unchanged.
C20_VerifyIdempotentFrame ==
    [][(/\ ops' = ops + 1
        /\ response'.method = "verify"
        /\ response'.existing \in 1 .. Len(attendances))
          => /\ Len(attendances') = Len(attendances)
             /\ attendances'[response'.existing].is_verified
             /\ \A i \in 1 .. Len(attendances) :
                   /\ Core(attendances'[i]) = Core(attendances[i])
                   /\ i /= response'.existing => attendances'[i] = attendances[i]
                   /\ attendances[i].is_verified => attendances'[i].is_verified
    ]_vars

\* C20 witness: the only record has been verified twice (two operations were
\* spent and the grace period was never updated) and is verified.
C20_Witness ==
    /\ ops = 2
    /\ Len(attendances) = 1
    /\ attendances[1].is_verified
    /\ \A s \in Sessions : sessions[s].grace_period_minutes = 10
    /\ response.method = "verify"

\* C18: every record made through the QR channel has confidence 1.0 and
\* every record made through the face channel has a confidence in [0, 1]
\* that is at least the threshold.
C18_RecordConfidence ==
    \A i \in 1 .. Len(attendances) :
        LET a == attendances[i] IN
        /\ a.method = "qr_code" => a.confidence_score = 100
        /\ a.method = "face_recognition" =>
              /\ a.confidence_score >= 0 /\ a.confidence_score <= 100
              /\ a.confidence_score >= FACE_RECOGNITION_TOLERANCE

\* C18 witness: the table holds a QR record and a face record.
C18_Witness ==
    /\ \E i \in 1 .. Len(attendances) : attendances[i].method = "qr_code"
    /\ \E i \in 1 .. Len(attendances) :
          attendances[i].method = "face_recognition"

\* C19: to an open session, a QR submission is answered QR_CODE_DISABLED
\* whenever qr_code_enabled is false and a face submission
\* FACE_RECOGNITION_DISABLED whenever face_recognition_enabled is false,
\* whatever the evidence; and while one channel is disabled, the other
\* channel answers every submission as it would with both enabled.
C19_ChannelDisabledRejected ==
    \A s \in Sessions, u \in Users :
        LET cs == sessions[s] IN
        /\ (is_class_active(cs, now) /\ ~cs.qr_code_enabled) =>
              \A k \in 0 .. tokens :
                  mark_attendance_qr(cs, u, s, k, attendances, now)
                      = "QR_CODE_DISABLED"
        /\ (is_class_active(cs, now) /\ ~cs.face_recognition_enabled) =>
              \A p \in Probes :
                  mark_attendance_face(cs, u, s, p, attendances, now)
                      = "FACE_RECOGNITION_DISABLED"
        /\ ~cs.face_recognition_enabled =>
              \A k \in 0 .. tokens :
                  mark_attendance_qr(
                      [cs EXCEPT !.face_recognition_enabled = TRUE],
                      u, s, k, attendances, now)
                    = mark_attendance_qr(cs, u, s, k, attendances, now)
        /\ ~cs.qr_code_enabled =>
              \A p \in Probes :
                  mark_attendance_face(
                      [cs EXCEPT !.qr_code_enabled = TRUE],
                      u, s, p, attendances, now)
                    = mark_attendance_face(cs, u, s, p, attendances, now)

\* C19 witness: with the QR channel disabled on an open session that holds a
\* valid credential, a face submission was recorded and a QR submission was
\* then answered QR_CODE_DISABLED.
C19_Witness ==
    /\ response.code = "QR_CODE_DISABLED"
    /\ \E s \in Sessions :
          /\ ~sessions[s].qr_code_enabled
          /\ is_class_active(sessions[s], now)
          /\ \E k \in 1 .. tokens : validate_qr_code(sessions[s], k, now)
    /\ \E i \in 1 .. Len(attendances) :
          attendances[i].method = "face_recognition"
\* The rows of the analytics table for a session and a date.
Snapshots(class_id, target_date) ==
    {i \in 1 .. Len(analytics) :
        analytics[i].class_id = class_id /\ analytics[i].date = target_date}

\* C21: after any sequence and interleaving of generate_daily_analytics
\* calls the analytics table holds at most one row per (session id,
\* calendar date).
C21_AtMostOneSnapshotPerDay ==
    \A s \in Sessions, d \in Dates : Cardinality(Snapshots(s, d)) <= 1

\* C22: a call of generate_daily_analytics that finds a row for its session
\* and date leaves in it, field by field, what a first computation from the
\* same ledger and session settings stores.
C22_RecomputeEqualsFirstCompute ==
    [][\A i \in 1 .. Len(computing) :
          (DailyAnalyticsCommit(i) /\ computing[i].analytics /= 0) =>
              analytics'[computing[i].analytics]
                  = created_analytics(computing[i])]_vars

\* C30: every stored analytics row has present_count <= total_students,
\* absent_count = total_students - present_count >= 0 and an attendance
\* rate between 0 and 100.
C30_SnapshotCountsConsistent ==
    \A i \in 1 .. Len(analytics) :
        LET a == analytics[i] IN
        /\ a.present_count <= a.total_students
        /\ a.absent_count = a.total_students - a.present_count
        /\ a.absent_count >= 0
        /\ a.attendance_rate >= 0 /\ a.attendance_rate <= 10000
\* The direction the trend rule gives for a date-ordered list of rows:
\* stable with fewer than 2 rows or none before the last 7, else by the mean
\* rate of the last 7 minus the mean rate of the earlier ones against 5.
TrendRule(list) ==
    LET n == Len(list)
        recent == Sum([i \in 1 .. 7 |-> list[n - 7 + i].attendance_rate])
        older == Sum([i \in 1 .. n - 7 |-> list[i].attendance_rate])
    IN  IF n < 2 \/ n <= 7 THEN "stable"
        ELSE IF recent * (n - 7) - older * 7 > 500 * 7 * (n - 7) THEN "improving"
        ELSE IF recent * (n - 7) - older * 7 < 0 - 500 * 7 * (n - 7) THEN "declining"
        ELSE "stable"

\* C23: whenever snapshots are stored, the trend query of a session answers
\* with the snapshots of the period in date order and the direction the
\* trend rule gives for them.
C23_TrendDirection ==
    \A s \in Sessions :
        Snapshots(s, day(now)) /= {} =>
            LET trends == get_attendance_trends(analytics, s, DEFAULT_DAYS, day(now))
            IN  IF trends.raised /= "none" THEN FALSE
                ELSE trends.value.summary.trend_direction
                         = TrendRule(trends.value.trends)

\* The students the risk rule returns: those whose count of records stamped
\* in the window, over the window's days, times 100, is strictly below the
\* threshold.
AtRisk(threshold, days) ==
    {u \in Users :
        Cardinality({i \in 1 .. Len(attendances) :
            /\ attendances[i].user_id = u
            /\ attendances[i].timestamp >= now - days * MinutesPerDay
            /\ attendances[i].timestamp <= now}) * 100 < threshold * days}

\* C24: once the ledger holds a record, the risk query returns, for every
\* threshold and window, exactly the students whose rate is strictly below
\* the threshold, in ascending order of rate.
C24_RiskStudents ==
    attendances /= <<>> =>
        \A threshold \in Thresholds, days \in WindowDays :
            LET risk == get_risk_students(attendances, threshold, days, now)
            IN  IF risk.raised /= "none" THEN FALSE
                ELSE /\ {risk.value[i].student : i \in DOMAIN risk.value}
                            = AtRisk(threshold, days)
                     /\ \A i, j \in DOMAIN risk.value :
                            i < j => risk.value[i].attendance_rate
                                        <= risk.value[j].attendance_rate
\* The answers that reject a submission for its evidence.
EvidenceRejections ==
    {"INVALID_QR_CODE", "FACE_NOT_ENROLLED", "NO_FACE_DETECTED",
     "FACE_NOT_RECOGNIZED", "LOW_CONFIDENCE"}

SubmissionStep == CheckQr \/ CheckFace \/ \E i \in 1 .. MaxRequests : Insert(i)

\* C28: a step of a submission leaves the session rows as they are and
\* changes the ledger only by appending one unverified record of the
\* submitting user and the named session, and then the submission is
\* answered success; a submission answered otherwise leaves the ledger
\* unchanged; and no step that is not a submission's changes the number of
\* records.
C28_SubmitFrame ==
    [][/\ Len(attendances') /= Len(attendances) => SubmissionStep
       /\ SubmissionStep =>
             /\ sessions' = sessions
             /\ attendances' /= attendances =>
                   /\ response'.code = "success"
                   /\ Len(attendances') = Len(attendances) + 1
                   /\ SubSeq(attendances', 1, Len(attendances)) = attendances
                   /\ LET a == attendances'[Len(attendances')]
                      IN  /\ a.user_id = response'.user_id
                          /\ a.class_id = response'.class_id
                          /\ ~a.is_verified]_vars

\* C25: on an open, QR-enabled session that holds a credential, a submission
\* presenting its token before the expiry by a user without a record is
\* recorded and answered success, one by a user who has a record is answered
\* ATTENDANCE_ALREADY_MARKED, and one after the expiry by a user without a
\* record is rejected with an answer that tells the expiry from a token
\* that does not match.
C25_QrScenario ==
    \A s \in Sessions, u \in Users : \A c \in Credential(sessions[s]) :
        LET cs == sessions[s]
            answer == mark_attendance_qr(cs, u, s, c.token, attendances, now)
        IN  (is_class_active(cs, now) /\ cs.qr_code_enabled) =>
              /\ (now <= c.expires_at /\ Records(u, s) = {}) =>
                    /\ answer = "insert"
                    /\ success_response(
                           Attendance(u, s, "qr_code", 100, now), cs,
                           "ATTENDANCE_ERROR") = "success"
              /\ (now <= c.expires_at /\ Records(u, s) /= {}) =>
                    answer = "ATTENDANCE_ALREADY_MARKED"
              /\ (now > c.expires_at /\ Records(u, s) = {}) =>
                    /\ answer /= "insert"
                    /\ answer /= mark_attendance_qr(cs, u, s, 0, attendances, now)

\* C26: once a submission presenting a token has made a record, no
\* submission presenting that token, by any user, passes to the insert.
C26_CredentialSingleUse ==
    (response.created /= 0 /\ response.method = "qr_code") =>
        \A u \in Users :
            mark_attendance_qr(sessions[response.class_id], u,
                               response.class_id, response.qr_token,
                               attendances, now) /= "insert"

\* C29: every record is stamped inside the attendance-open interval of its
\* session: not before start_time, not after start_time +
\* attendance_window_minutes, and not after end_time when one is set.
C29_TimestampInsideWindow ==
    \A i \in 1 .. Len(attendances) :
        LET a == attendances[i]
            cs == sessions[a.class_id]
        IN  /\ a.timestamp >= cs.start_time
            /\ a.timestamp <= cs.start_time + cs.attendance_window_minutes
            /\ IsNull(cs.end_time) \/ a.timestamp <= Val(cs.end_time)
====
